---- MODULE Spec2Model ----
(***************************************************************************)
(* The trip-planning client: Shared Trip State (TripContext) and the four  *)
(* views that read and write it -- List View (Trips), Create Flow          *)
(* (BuildANewTrip), Calendar View (TripDraftCalendar) and Item Detail View *)
(* (TripElementDetail) -- together with the requests they keep in flight.  *)
(* One action is one event-loop turn: a user event handler, or the         *)
(* continuation of an async function after an awaited response, followed   *)
(* by the renders and effects React runs before the next event.            *)
(***************************************************************************)
EXTENDS Integers, Sequences, FiniteSets, Bags, TLC

(* ------------------------------ bounds -------------------------------- *)
MaxInFlight == 2      \* fetchData runs in flight when the user opens a calendar
MaxCreated == 1       \* trips the server creates in one session
MaxDay == 2           \* days 0..MaxDay can be clicked in the date picker
MaxItems == 2         \* items of a calendar collection in the lookup specification
Today == 1            \* the day of the session
TicksPerDay == 2      \* instants per day (resolution of toISOString values)

(* ------------------------- program constants -------------------------- *)
WeekDays == 7         \* setDate(getDate() + 7)
DefaultGuests == 1    \* selectedGuests || 1
NoDate == -1          \* useState<Date | null>(null)

(* ------------------------------ values -------------------------------- *)
Null == "null"

\* A JavaScript value used as an identifier: a string, a {$oid} object, or null.
Str(v) == [kind |-> "str", val |-> v]
Oid(v) == [kind |-> "oid", val |-> v]
NullId == [kind |-> "null", val |-> ""]

\* !x is false for objects and for non-empty strings.
Truthy(id) == id.kind = "oid" \/ (id.kind = "str" /\ id.val # "")

\* String(x) as used in template literals and URL building.
StringOf(id) ==
  IF id.kind = "str" THEN id.val
  ELSE IF id.kind = "oid" THEN "[object Object]"
  ELSE "null"

\* A Trip document (services/types.ts).
TripDoc(id, s, e, dest, g, b, p) ==
  [_id |-> id, startDate |-> s, endDate |-> e, destination |-> dest,
   numberOfGuests |-> g, totalBudget |-> b, purpose |-> p]

NoTrip == [_id |-> NullId]

\* A calendar item (services/types.ts): identifier and owning trip.
Item(id, trip) == [_id |-> id, trip_id |-> trip]

NoItem == [_id |-> NullId]

(* --------------------------- the API server --------------------------- *)
\* The documents the server holds when a session starts: one trip whose id is
\* delivered as a plain string, one whose id is delivered wrapped.
InitialDb ==
  { TripDoc(Str("t1"), 0, 2 * TicksPerDay, "Aspen", 2, "$$", "Leisure"),
    TripDoc(Oid("t2"), 0, 4 * TicksPerDay, "Paris", 3, "$", "Business") }

\* GET /api/calendar/:tripId -- the items of that trip, in server order.
CalendarOf(tid) ==
  IF tid = "t1" THEN << Item(Str("a1"), "t1") >>
  ELSE IF tid = "t2" THEN << Item(Oid("b1"), "t2"), Item(Str("b2"), "t2") >>
  ELSE << >>

\* Identifiers the server gives to created trips.
NewIds == << "n1", "n2", "n3" >>

\* The order in which GET /api/trips lists documents.
IdOrder == << "t1", "t2", "n1", "n2", "n3" >>

DocId(doc) == doc._id.val

RECURSIVE ListFrom(_, _)
ListFrom(docs, i) ==
  IF i > Len(IdOrder) THEN << >>
  ELSE LET here == { d \in docs : DocId(d) = IdOrder[i] }
       IN (IF here = {} THEN << >> ELSE << CHOOSE d \in here : TRUE >>)
          \o ListFrom(docs, i + 1)

\* GET /api/trips
ListTrips(docs) == ListFrom(docs, 1)

(* ------------------------------ state --------------------------------- *)
VARIABLES
  currentTripId,   \* TripContext: the active trip id (an identifier value)
  currentTrip,     \* TripContext: the active trip record, or NoTrip
  calendarItems,   \* TripContext: the calendar item collection
  route,           \* the mounted view and its URL parameter
  tripsView,       \* List View local state and the position of fetchTrips
  calView,         \* Calendar View local state
  detailView,      \* Item Detail View local state
  form,            \* Create Flow local state
  fetches,         \* bag of fetchData runs awaiting a response
  creates,         \* bag of handleContinue runs awaiting the create response
  deletes,         \* bag of confirmDelete runs awaiting the delete response
  db,              \* the trip documents the server holds
  created,         \* how many trips the server has created in this session
  lastOp           \* the handler that ran last

ctx == << currentTripId, currentTrip, calendarItems >>
server == << db, created >>
views == << tripsView, calView, detailView, form >>
vars == << currentTripId, currentTrip, calendarItems, route, tripsView, calView,
           detailView, form, fetches, creates, deletes, db, created, lastOp >>


(* ----------------------- bags of pending runs ------------------------- *)
One(r) == SetToBag({r})

Copies(r, n) == [x \in {r} |-> n]

CountOf(b, r) == IF r \in DOMAIN b THEN b[r] ELSE 0

\* The runs of a component that unmounts stay in flight; their setters of
\* local state no longer do anything.
StaleOf(b) ==
  LET S == { [r EXCEPT !.live = FALSE] : r \in DOMAIN b }
  IN [s \in S |-> CountOf(b, s) + CountOf(b, [s EXCEPT !.live = TRUE])]

(* ------------------------------ List View ----------------------------- *)
\* Trips.tsx getFormattedTripId
getFormattedTripId(trip) ==
  IF trip._id.kind = "str" THEN trip._id.val
  ELSE IF trip._id.val # "" THEN trip._id.val
  ELSE "{}"

TripsIdle == [pc |-> "idle", loading |-> TRUE, error |-> Null, trips |-> << >>]

\* The state of Trips after its first render and the start of fetchTrips.
TripsMounted == [pc |-> "health", loading |-> TRUE, error |-> Null, trips |-> << >>]

(* ---------------------------- Calendar View --------------------------- *)
CalIdle ==
  [loading |-> TRUE, error |-> Null, deleteDialogOpen |-> FALSE, isDeleting |-> FALSE]

\* api.getTrip / api.getTripCalendar reject an id that is not a non-empty string.
ApiIdValid(id) == id.kind = "str" /\ id.val # ""

\* A faulty fetchData that prefers the id of the URL to the one in the context.
FetchPlan_PathFirst(ctxId, ctxTrip, pathId) ==
  LET usePath == pathId # ""
      tripId == IF usePath THEN Str(pathId) ELSE ctxId
  IN [tripId |-> tripId,
      setId |-> usePath,
      outcome |->
        IF ~Truthy(tripId) THEN "noId"
        ELSE IF ctxTrip = NoTrip
          THEN (IF ApiIdValid(tripId) THEN "trip" ELSE "tripInvalid")
          ELSE (IF ApiIdValid(tripId) THEN "cal" ELSE "calInvalid")]

\* fetchData up to its first await: the trip id it settles on, whether it
\* writes that id to the context, and where it stops.
FetchPlan(ctxId, ctxTrip, pathId) ==
  LET usePath == ~Truthy(ctxId) /\ pathId # ""
      tripId == IF usePath THEN Str(pathId) ELSE ctxId
  IN [tripId |-> tripId,
      setId |-> usePath,
      outcome |->
        IF ~Truthy(tripId) THEN "noId"
        ELSE IF ctxTrip = NoTrip
          THEN (IF ApiIdValid(tripId) THEN "trip" ELSE "tripInvalid")
          ELSE (IF ApiIdValid(tripId) THEN "cal" ELSE "calInvalid")]

FetchError(outcome) ==
  IF outcome = "noId" THEN "No trip ID provided"
  ELSE IF outcome = "tripInvalid" THEN "Failed to load trip details"
  ELSE IF outcome = "calInvalid" THEN "Could not load calendar items"
  ELSE Null

\* The useEffect on [fetchData], run until it is quiet: fetchData runs once,
\* and once more when the first run wrote the trip id to the context.
CalendarEffect(ctxId, ctxTrip, ctxItems, pathId) ==
  LET plan == FetchPlan(ctxId, ctxTrip, pathId)
      pending == plan.outcome \in {"trip", "cal"}
      run == [tripId |-> plan.tripId, stage |-> plan.outcome, live |-> TRUE]
  IN [id |-> IF plan.setId THEN plan.tripId ELSE ctxId,
      items |-> IF plan.outcome = "calInvalid" THEN << >> ELSE ctxItems,
      runs |-> IF pending THEN Copies(run, IF plan.setId THEN 2 ELSE 1) ELSE EmptyBag,
      loading |-> pending,
      error |-> FetchError(plan.outcome)]

\* handleItemClick: the id placed in the Item Detail URL.
ItemClickId(id) ==
  IF id.kind = "oid" /\ id.val # "" THEN id.val ELSE StringOf(id)

(* --------------------------- Item Detail View ------------------------- *)
DetailIdle == [item |-> NoItem, loading |-> TRUE, error |-> Null]

\* calendarItems.find(...): the first item whose id matches; reading $oid of
\* a missing _id throws. (Ids in the URL hold no '/', so paramId is id.)
RECURSIVE FindFrom(_, _, _)
FindFrom(items, paramId, i) ==
  IF i > Len(items) THEN [res |-> "absent", element |-> NoItem]
  ELSE IF items[i]._id.kind = "null" THEN [res |-> "threw", element |-> NoItem]
  ELSE IF items[i]._id.val = paramId THEN [res |-> "found", element |-> items[i]]
  ELSE FindFrom(items, paramId, i + 1)

\* A faulty lookup without the try/catch: the exception leaves the effect
\* before setLoading(false).
DetailLookup_NoCatch(items, id, prev) ==
  IF id = "" THEN [prev EXCEPT !.error = "No element ID provided", !.loading = FALSE]
  ELSE LET f == FindFrom(items, id, 1)
       IN IF f.res = "found" THEN [prev EXCEPT !.item = f.element, !.loading = FALSE]
          ELSE IF f.res = "absent"
            THEN [prev EXCEPT !.error = "Element not found", !.loading = FALSE]
            ELSE prev

\* The body of the detail effect once a trip id is known to be present.
DetailLookup(items, id, prev) ==
  IF id = "" THEN [prev EXCEPT !.error = "No element ID provided", !.loading = FALSE]
  ELSE LET f == FindFrom(items, id, 1)
       IN IF f.res = "found" THEN [prev EXCEPT !.item = f.element, !.loading = FALSE]
          ELSE IF f.res = "absent"
            THEN [prev EXCEPT !.error = "Element not found", !.loading = FALSE]
            ELSE [prev EXCEPT !.error = "Error loading element details",
                              !.loading = FALSE]

(* ------------------------------ Create Flow --------------------------- *)
FormIdle ==
  [selectedDestination |-> Null, startDate |-> NoDate, endDate |-> NoDate,
   showCalendar |-> Null, selectedGuests |-> 0, selectedBudget |-> [dollars |-> 0, word |-> ""],
   selectedPurpose |-> Null, error |-> Null, isCreating |-> FALSE]

(* ----------------------------- navigation ----------------------------- *)
\* Each fragment mounts one view (its first render and mount effects) and
\* unmounts the others; f, c, d are the pending runs left by the handler.
Pending(f, c, d) ==
  /\ fetches' = f
  /\ creates' = c
  /\ deletes' = d

EnterTrips(f, c, d) ==
  /\ route' = [view |-> "trips", id |-> ""]
  /\ tripsView' = TripsMounted
  /\ calView' = CalIdle
  /\ detailView' = DetailIdle
  /\ form' = FormIdle
  /\ Pending(StaleOf(f), StaleOf(c), StaleOf(d))

EnterCreate(f, c, d) ==
  /\ route' = [view |-> "create", id |-> ""]
  /\ tripsView' = TripsIdle
  /\ calView' = CalIdle
  /\ detailView' = DetailIdle
  /\ form' = FormIdle
  /\ Pending(StaleOf(f), StaleOf(c), StaleOf(d))

\* Mounts Calendar View on a context holding (id, trip, items).
EnterCalendar(id, trip, items, pathId, f, c, d) ==
  LET eff == CalendarEffect(id, trip, items, pathId)
  IN /\ route' = [view |-> "calendar", id |-> pathId]
     /\ currentTripId' = eff.id
     /\ currentTrip' = trip
     /\ calendarItems' = eff.items
     /\ tripsView' = TripsIdle
     /\ calView' = [CalIdle EXCEPT !.loading = eff.loading, !.error = eff.error]
     /\ detailView' = DetailIdle
     /\ form' = FormIdle
     /\ Pending(StaleOf(f) (+) eff.runs, StaleOf(c), StaleOf(d))

\* A faulty Item Detail View whose effect does not redirect.
EnterDetail_NoRedirect(itemId, f, c, d) ==
       /\ route' = [view |-> "detail", id |-> itemId]
       /\ tripsView' = TripsIdle
       /\ calView' = CalIdle
       /\ detailView' = DetailLookup(calendarItems, itemId, DetailIdle)
       /\ form' = FormIdle
       /\ Pending(StaleOf(f), StaleOf(c), StaleOf(d))

\* Mounts Item Detail View; without a trip id in the context its effect
\* redirects to List View.
EnterDetail(itemId, f, c, d) ==
  IF ~Truthy(currentTripId)
  THEN EnterTrips(f, c, d)
  ELSE /\ route' = [view |-> "detail", id |-> itemId]
       /\ tripsView' = TripsIdle
       /\ calView' = CalIdle
       /\ detailView' = DetailLookup(calendarItems, itemId, DetailIdle)
       /\ form' = FormIdle
       /\ Pending(StaleOf(f), StaleOf(c), StaleOf(d))


(* --------------------------- initial states --------------------------- *)
\* The path ids a session can be opened with: a known trip, an unknown one,
\* and a calendar URL without an id.
PathIds == {"t1", "zz", ""}

\* The application opened at one of its URLs, after the first render and the
\* mount effects of the view shown. Item Detail View opened first finds no
\* trip id and redirects to List View.
Init ==
  /\ db = InitialDb
  /\ created = 0
  /\ creates = EmptyBag
  /\ deletes = EmptyBag
  /\ currentTrip = NoTrip
  /\ calendarItems = << >>
  /\ detailView = DetailIdle
  /\ \/ /\ lastOp \in {"openTrips", "openDetail"}
        /\ route = [view |-> "trips", id |-> ""]
        /\ currentTripId = NullId
        /\ tripsView = TripsMounted
        /\ calView = CalIdle
        /\ form = FormIdle
        /\ fetches = EmptyBag
     \/ \E p \in PathIds :
          LET eff == CalendarEffect(NullId, NoTrip, << >>, p)
          IN /\ lastOp = "openCalendar"
             /\ route = [view |-> "calendar", id |-> p]
             /\ currentTripId = eff.id
             /\ tripsView = TripsIdle
             /\ calView = [CalIdle EXCEPT !.loading = eff.loading, !.error = eff.error]
             /\ form = FormIdle
             /\ fetches = eff.runs

(* ------------------------- List View actions -------------------------- *)
\* fetchTrips: api.checkApiHealth() resolved.
HealthOk ==
  /\ route.view = "trips"
  /\ tripsView.pc = "health"
  /\ tripsView' = [tripsView EXCEPT !.pc = "list"]
  /\ lastOp' = "healthOk"
  /\ UNCHANGED << ctx, route, calView, detailView, form, fetches, creates, deletes, server >>

\* A faulty fetchTrips that goes on to getTrips after a failed health check.
HealthFail_StillLists ==
  /\ route.view = "trips"
  /\ tripsView.pc = "health"
  /\ tripsView' = [pc |-> "list", loading |-> TRUE,
                   error |-> "Cannot connect to the API server", trips |-> << >>]
  /\ lastOp' = "healthFail"
  /\ UNCHANGED << ctx, route, calView, detailView, form, fetches, creates, deletes, server >>

\* fetchTrips: api.checkApiHealth() threw.
HealthFail ==
  /\ route.view = "trips"
  /\ tripsView.pc = "health"
  /\ tripsView' = [pc |-> "done", loading |-> FALSE,
                   error |-> "Cannot connect to the API server", trips |-> << >>]
  /\ lastOp' = "healthFail"
  /\ UNCHANGED << ctx, route, calView, detailView, form, fetches, creates, deletes, server >>

\* fetchTrips: api.getTrips() resolved with the server's documents.
ListOk ==
  /\ route.view = "trips"
  /\ tripsView.pc = "list"
  /\ LET tripData == ListTrips(db)
     IN tripsView' = [pc |-> "done", loading |-> FALSE, trips |-> tripData,
                      error |-> IF Len(tripData) = 0
                                THEN "No trips found in the database"
                                ELSE Null]
  /\ lastOp' = "listOk"
  /\ UNCHANGED << ctx, route, calView, detailView, form, fetches, creates, deletes, server >>

\* fetchTrips: api.getTrips() threw.
ListFail ==
  /\ route.view = "trips"
  /\ tripsView.pc = "list"
  /\ tripsView' = [tripsView EXCEPT !.pc = "done", !.loading = FALSE,
                     !.error = "An error occurred while fetching trips"]
  /\ lastOp' = "listFail"
  /\ UNCHANGED << ctx, route, calView, detailView, form, fetches, creates, deletes, server >>

\* The trip cards are rendered when loading is over without an error.
TripsShown ==
  IF route.view = "trips" /\ ~tripsView.loading /\ tripsView.error = Null
  THEN tripsView.trips ELSE << >>

\* A faulty handleTripClick that omits setCalendarItems([]).
handleTripClick_KeepItems(trip) ==
  LET tripId == getFormattedTripId(trip)
  IN EnterCalendar(Str(tripId), trip, calendarItems, tripId, fetches, creates, deletes)

\* Trips.tsx handleTripClick, and the mount of Calendar View it navigates to.
handleTripClick(trip) ==
  LET tripId == getFormattedTripId(trip)
  IN EnterCalendar(Str(tripId), trip, << >>, tripId, fetches, creates, deletes)

HandleTripClick(trip) ==
  /\ BagCardinality(fetches) < MaxInFlight
  /\ handleTripClick(trip)
  /\ lastOp' = "handleTripClick"
  /\ UNCHANGED server

\* Trips.tsx handleCreateNewTrip
HandleCreateNewTrip ==
  /\ route.view = "trips"
  /\ EnterCreate(fetches, creates, deletes)
  /\ lastOp' = "handleCreateNewTrip"
  /\ UNCHANGED << ctx, server >>

(* ------------------------ Calendar View actions ----------------------- *)
\* api.getTrip(tripId) resolved: setCurrentTrip(tripData); the run goes on to
\* getTripCalendar, and a mounted Calendar View runs its effect again, its
\* fetchData having a new currentTrip.
GetTripOk ==
  \E r \in DOMAIN fetches : \E doc \in db :
    /\ r.stage = "trip"
    /\ DocId(doc) = r.tripId.val
    /\ LET base == (fetches (-) One(r)) (+) One([r EXCEPT !.stage = "cal"])
       IN /\ currentTrip' = doc
          /\ IF route.view = "calendar"
             THEN LET eff == CalendarEffect(currentTripId, doc, calendarItems, route.id)
                  IN /\ currentTripId' = eff.id
                     /\ calendarItems' = eff.items
                     /\ calView' = [calView EXCEPT !.loading = eff.loading,
                                                   !.error = eff.error]
                     /\ fetches' = base (+) eff.runs
                     /\ detailView' = detailView
             ELSE /\ currentTripId' = currentTripId
                  /\ calendarItems' = calendarItems
                  /\ calView' = calView
                  /\ fetches' = base
                  /\ detailView' = IF route.view = "detail"
                                   THEN DetailLookup(calendarItems, route.id, detailView)
                                   ELSE detailView
    /\ lastOp' = "getTripOk"
    /\ UNCHANGED << route, tripsView, form, creates, deletes, server >>

\* api.getTrip(tripId) threw: the outer catch of fetchData.
GetTripFail ==
  \E r \in DOMAIN fetches :
    /\ r.stage = "trip"
    /\ fetches' = fetches (-) One(r)
    /\ calView' = IF r.live
                  THEN [calView EXCEPT !.loading = FALSE,
                                       !.error = "Failed to load trip details"]
                  ELSE calView
    /\ lastOp' = "getTripFail"
    /\ UNCHANGED << ctx, route, tripsView, detailView, form, creates, deletes, server >>

\* A faulty success path without the finally block of fetchData.
GetCalOk_NoFinally ==
  \E r \in DOMAIN fetches :
    /\ r.stage = "cal"
    /\ fetches' = fetches (-) One(r)
    /\ calendarItems' = CalendarOf(r.tripId.val)
    /\ calView' = calView
    /\ detailView' = IF route.view = "detail"
                     THEN DetailLookup(calendarItems', route.id, detailView)
                     ELSE detailView
    /\ lastOp' = "getCalOk"
    /\ UNCHANGED << currentTripId, currentTrip, route, tripsView, form, creates,
                    deletes, server >>

\* api.getTripCalendar(tripId) resolved with the items of that trip.
GetCalOk ==
  \E r \in DOMAIN fetches :
    /\ r.stage = "cal"
    /\ fetches' = fetches (-) One(r)
    /\ calendarItems' = CalendarOf(r.tripId.val)
    /\ calView' = IF r.live THEN [calView EXCEPT !.loading = FALSE] ELSE calView
    /\ detailView' = IF route.view = "detail"
                     THEN DetailLookup(calendarItems', route.id, detailView)
                     ELSE detailView
    /\ lastOp' = "getCalOk"
    /\ UNCHANGED << currentTripId, currentTrip, route, tripsView, form, creates,
                    deletes, server >>

\* api.getTripCalendar(tripId) threw: the inner catch of fetchData.
GetCalFail ==
  \E r \in DOMAIN fetches :
    /\ r.stage = "cal"
    /\ fetches' = fetches (-) One(r)
    /\ calendarItems' = << >>
    /\ calView' = IF r.live
                  THEN [calView EXCEPT !.loading = FALSE,
                                       !.error = "Could not load calendar items"]
                  ELSE calView
    /\ detailView' = IF route.view = "detail"
                     THEN DetailLookup(calendarItems', route.id, detailView)
                     ELSE detailView
    /\ lastOp' = "getCalFail"
    /\ UNCHANGED << currentTripId, currentTrip, route, tripsView, form, creates,
                    deletes, server >>

\* The item list is rendered when loading is over without an error.
ItemsShown ==
  IF route.view = "calendar" /\ ~calView.loading /\ calView.error = Null
  THEN calendarItems ELSE << >>

\* A faulty handleItemClick that keeps only the clicked item in the context.
HandleItemClick_StoresItem ==
  /\ ~calView.deleteDialogOpen
  /\ \E i \in 1..Len(ItemsShown) :
       /\ EnterDetail(ItemClickId(ItemsShown[i]._id), fetches, creates, deletes)
       /\ calendarItems' = << ItemsShown[i] >>
  /\ lastOp' = "handleItemClick"
  /\ UNCHANGED << currentTripId, currentTrip, server >>

\* handleItemClick, and the mount of Item Detail View it navigates to. The
\* page's controls lie under the delete dialog while it is open.
HandleItemClick ==
  /\ ~calView.deleteDialogOpen
  /\ \E i \in 1..Len(ItemsShown) :
       EnterDetail(ItemClickId(ItemsShown[i]._id), fetches, creates, deletes)
  /\ lastOp' = "handleItemClick"
  /\ UNCHANGED << ctx, server >>

\* handleBackToTrips
HandleBackToTrips ==
  /\ route.view = "calendar"
  /\ ~calView.deleteDialogOpen
  /\ EnterTrips(fetches, creates, deletes)
  /\ lastOp' = "handleBackToTrips"
  /\ UNCHANGED << ctx, server >>

\* A faulty resetError that clears the error without calling fetchData.
ResetError_NoFetch ==
  /\ route.view = "calendar"
  /\ ~calView.loading
  /\ calView.error # Null
  /\ ~calView.deleteDialogOpen
  /\ BagCardinality(fetches) < MaxInFlight
  /\ calView' = [calView EXCEPT !.error = Null]
  /\ lastOp' = "resetError"
  /\ UNCHANGED << ctx, route, tripsView, detailView, form, fetches, creates, deletes, server >>

\* resetError (the Retry control): fetchData() again, and the effect once
\* more when that run wrote the trip id to the context.
ResetError ==
  /\ route.view = "calendar"
  /\ ~calView.loading
  /\ calView.error # Null
  /\ ~calView.deleteDialogOpen
  /\ BagCardinality(fetches) < MaxInFlight
  /\ LET eff == CalendarEffect(currentTripId, currentTrip, calendarItems, route.id)
     IN /\ currentTripId' = eff.id
        /\ calendarItems' = eff.items
        /\ calView' = [calView EXCEPT !.loading = eff.loading, !.error = eff.error]
        /\ fetches' = fetches (+) eff.runs
  /\ lastOp' = "resetError"
  /\ UNCHANGED << currentTrip, route, tripsView, detailView, form, creates, deletes, server >>

(* ---------------------- Item Detail View actions ---------------------- *)
\* TripElementDetail handleBack, and the mount of Calendar View.
HandleBack ==
  /\ route.view = "detail"
  /\ BagCardinality(fetches) < MaxInFlight
  /\ IF Truthy(currentTripId)
     THEN EnterCalendar(currentTripId, currentTrip, calendarItems,
                        StringOf(currentTripId), fetches, creates, deletes)
     ELSE EnterTrips(fetches, creates, deletes) /\ UNCHANGED ctx
  /\ lastOp' = "handleBack"
  /\ UNCHANGED server

(* ------------------------- Create Flow actions ------------------------ *)
Destinations == {"Paris, France"}

\* cityOptionsDict[destination].city
CityOf(dest) == IF dest = "Paris, France" THEN "Paris" ELSE ""

GuestChoices == {2}

\* A budget label: its dollar signs and its word.
NoBudget == [dollars |-> 0, word |-> ""]
BudgetLabels == { [dollars |-> 3, word |-> "Premium"] }

PurposeChoices == {"Business"}

Days == 0..MaxDay

\* The form's controls lie under the date dialog while it is open.
FormFree == route.view = "create" /\ form.showCalendar = Null

\* handleDestinationSelect
HandleDestinationSelect ==
  /\ FormFree
  /\ \E dest \in Destinations : form' = [form EXCEPT !.selectedDestination = dest]
  /\ lastOp' = "handleDestinationSelect"
  /\ UNCHANGED << ctx, route, tripsView, calView, detailView, fetches, creates,
                  deletes, server >>

\* handleGuestSelect
HandleGuestSelect ==
  /\ FormFree
  /\ \E g \in GuestChoices : form' = [form EXCEPT !.selectedGuests = g]
  /\ lastOp' = "handleGuestSelect"
  /\ UNCHANGED << ctx, route, tripsView, calView, detailView, fetches, creates,
                  deletes, server >>

\* handleBudgetSelect
HandleBudgetSelect ==
  /\ FormFree
  /\ \E b \in BudgetLabels : form' = [form EXCEPT !.selectedBudget = b]
  /\ lastOp' = "handleBudgetSelect"
  /\ UNCHANGED << ctx, route, tripsView, calView, detailView, fetches, creates,
                  deletes, server >>

\* handlePurposeSelect
HandlePurposeSelect ==
  /\ FormFree
  /\ \E p \in PurposeChoices : form' = [form EXCEPT !.selectedPurpose = p]
  /\ lastOp' = "handlePurposeSelect"
  /\ UNCHANGED << ctx, route, tripsView, calView, detailView, fetches, creates,
                  deletes, server >>

\* handleCardClick, case 5: the date card opens the picker in start mode.
OpenDatePicker ==
  /\ FormFree
  /\ form' = [form EXCEPT !.showCalendar = "start"]
  /\ lastOp' = "openDatePicker"
  /\ UNCHANGED << ctx, route, tripsView, calView, detailView, fetches, creates,
                  deletes, server >>

\* A faulty handleDayClick that moves the end date seven days past the old
\* end date instead of seven days past the new start date.
handleDayClick_FromOldEnd(f, d) ==
  IF f.showCalendar = "start"
  THEN [f EXCEPT !.startDate = d,
                 !.endDate = IF f.endDate # NoDate /\ d > f.endDate
                             THEN f.endDate + WeekDays ELSE f.endDate,
                 !.showCalendar = "end"]
  ELSE IF f.showCalendar = "end"
    THEN (IF f.startDate # NoDate /\ d < f.startDate
          THEN f
          ELSE [f EXCEPT !.endDate = d, !.showCalendar = Null])
    ELSE f

\* A faulty handleDayClick that accepts an end date before the start date.
handleDayClick_AcceptEarlier(f, d) ==
  IF f.showCalendar = "start"
  THEN [f EXCEPT !.startDate = d,
                 !.endDate = IF f.endDate # NoDate /\ d > f.endDate
                             THEN d + WeekDays ELSE f.endDate,
                 !.showCalendar = "end"]
  ELSE IF f.showCalendar = "end"
    THEN [f EXCEPT !.endDate = d, !.showCalendar = Null]
    ELSE f

\* A faulty handleDayClick that leaves the end date alone in start mode.
handleDayClick_NoShift(f, d) ==
  IF f.showCalendar = "start"
  THEN [f EXCEPT !.startDate = d, !.showCalendar = "end"]
  ELSE IF f.showCalendar = "end"
    THEN (IF f.startDate # NoDate /\ d < f.startDate
          THEN f
          ELSE [f EXCEPT !.endDate = d, !.showCalendar = Null])
    ELSE f

\* handleDayClick on the day d (a Date at local midnight, counted in days).
handleDayClick(f, d) ==
  IF f.showCalendar = "start"
  THEN [f EXCEPT !.startDate = d,
                 !.endDate = IF f.endDate # NoDate /\ d > f.endDate
                             THEN d + WeekDays ELSE f.endDate,
                 !.showCalendar = "end"]
  ELSE IF f.showCalendar = "end"
    THEN (IF f.startDate # NoDate /\ d < f.startDate
          THEN f
          ELSE [f EXCEPT !.endDate = d, !.showCalendar = Null])
    ELSE f

HandleDayClick(d) ==
  /\ route.view = "create"
  /\ form.showCalendar # Null
  /\ form' = handleDayClick(form, d)
  /\ lastOp' = IF form.showCalendar = "start" THEN "handleDayClick(start)"
                ELSE "handleDayClick(end)"
  /\ UNCHANGED << ctx, route, tripsView, calView, detailView, fetches, creates,
                  deletes, server >>

\* clearDateSelection (the Clear control of the picker)
clearDateSelection(f) ==
  IF f.showCalendar = "start"
  THEN [f EXCEPT !.startDate = NoDate, !.showCalendar = Null]
  ELSE IF f.showCalendar = "end"
    THEN [f EXCEPT !.endDate = NoDate, !.showCalendar = Null]
    ELSE [f EXCEPT !.showCalendar = Null]

ClearDateSelection ==
  /\ route.view = "create"
  /\ form.showCalendar # Null
  /\ form' = clearDateSelection(form)
  /\ lastOp' = "clearDateSelection"
  /\ UNCHANGED << ctx, route, tripsView, calView, detailView, fetches, creates,
                  deletes, server >>

\* Dialog onClose and the close icon: setShowCalendar(null)
CloseDatePicker ==
  /\ route.view = "create"
  /\ form.showCalendar # Null
  /\ form' = [form EXCEPT !.showCalendar = Null]
  /\ lastOp' = "closeDatePicker"
  /\ UNCHANGED << ctx, route, tripsView, calView, detailView, fetches, creates,
                  deletes, server >>

\* Date.toISOString() of a picked day: the instant of its local midnight.
InstantOf(d) == d * TicksPerDay

\* formatBudgetToSymbols
formatBudgetToSymbols(b) ==
  IF b = NoBudget THEN "$"
  ELSE IF b.dollars > 0 THEN << "$", "$$", "$$$", "$$$$" >>[b.dollars]
  ELSE IF b.word \in {"luxury", "expensive"} THEN "$$$$"
  ELSE IF b.word \in {"moderate", "mid"} THEN "$$"
  ELSE IF b.word \in {"premium", "high"} THEN "$$$"
  ELSE "$"

\* A faulty tripData whose default end date is a week after the submission
\* instead of a week after the start date sent.
TripData_EndFromNow(f, now) ==
  LET startDateStr == IF f.startDate # NoDate THEN InstantOf(f.startDate) ELSE now
      endDateStr == IF f.endDate # NoDate THEN InstantOf(f.endDate)
                    ELSE now + WeekDays * TicksPerDay
  IN [startDate |-> startDateStr,
      endDate |-> endDateStr,
      destination |-> CityOf(f.selectedDestination),
      numberOfGuests |-> IF f.selectedGuests # 0 THEN f.selectedGuests
                         ELSE DefaultGuests,
      totalBudget |-> formatBudgetToSymbols(f.selectedBudget),
      purpose |-> IF f.selectedPurpose # Null THEN f.selectedPurpose ELSE "Leisure"]

\* The tripData handleContinue builds when it runs at the instant now.
TripData(f, now) ==
  LET startDateStr == IF f.startDate # NoDate THEN InstantOf(f.startDate) ELSE now
      endDateStr == IF f.endDate # NoDate THEN InstantOf(f.endDate)
                    ELSE startDateStr + WeekDays * TicksPerDay
  IN [startDate |-> startDateStr,
      endDate |-> endDateStr,
      destination |-> CityOf(f.selectedDestination),
      numberOfGuests |-> IF f.selectedGuests # 0 THEN f.selectedGuests
                         ELSE DefaultGuests,
      totalBudget |-> formatBudgetToSymbols(f.selectedBudget),
      purpose |-> IF f.selectedPurpose # Null THEN f.selectedPurpose ELSE "Leisure"]

\* A faulty tripWithId that keeps tripData without the _id of the response.
WithId_DropsId(tripData, id) ==
  TripDoc(NullId, tripData.startDate, tripData.endDate, tripData.destination,
          tripData.numberOfGuests, tripData.totalBudget, tripData.purpose)

\* { ...tripData, _id }
WithId(tripData, id) ==
  TripDoc(id, tripData.startDate, tripData.endDate, tripData.destination,
          tripData.numberOfGuests, tripData.totalBudget, tripData.purpose)

\* The instants at which a submission can happen during the session's day.
Nows == { Today * TicksPerDay + t : t \in 0..(TicksPerDay - 1) }

\* A faulty handleContinue without the destination check.
HandleContinue_NoValidation ==
  /\ FormFree
  /\ ~form.isCreating
  /\ created + BagCardinality(creates) < MaxCreated
  /\ form' = [form EXCEPT !.isCreating = TRUE, !.error = Null]
  /\ \E now \in Nows :
       creates' = creates (+) One([tripData |-> TripData(form, now), live |-> TRUE])
  /\ lastOp' = "handleContinue"
  /\ UNCHANGED << ctx, route, tripsView, calView, detailView, fetches, deletes, server >>

\* handleContinue up to its await: without a destination it only sets the
\* error; otherwise it posts tripData and awaits the response.
HandleContinue ==
  /\ FormFree
  /\ ~form.isCreating
  /\ IF form.selectedDestination = Null
     THEN /\ form' = [form EXCEPT !.error = "Please select a destination first"]
          /\ creates' = creates
     ELSE /\ created + BagCardinality(creates) < MaxCreated
          /\ form' = [form EXCEPT !.isCreating = TRUE, !.error = Null]
          /\ \E now \in Nows :
               creates' = creates (+) One([tripData |-> TripData(form, now),
                                           live |-> TRUE])
  /\ lastOp' = "handleContinue"
  /\ UNCHANGED << ctx, route, tripsView, calView, detailView, fetches, deletes, server >>

\* The forms in which the server can deliver the id of the trip it creates.
TripIdForms ==
  IF created < Len(NewIds)
  THEN {Str(NewIds[created + 1]), Oid(NewIds[created + 1])}
  ELSE {}

\* The create response carried a trip id, plain or wrapped: the id and the
\* trip are written to the context and the flow navigates to Calendar View.
\* A Calendar View that is already mounted stays mounted and runs its effect
\* for the new context and path.
CreateOk(r, tid) ==
    LET tripWithId == WithId(r.tripData, tid)
        left == creates (-) One(r)
    IN /\ r \in DOMAIN creates
       /\ tid \in TripIdForms
       /\ created < MaxCreated
       /\ created' = created + 1
       /\ db' = db \cup {tripWithId}
       /\ IF route.view = "calendar"
          THEN LET eff == CalendarEffect(tid, tripWithId, calendarItems, StringOf(tid))
               IN /\ route' = [view |-> "calendar", id |-> StringOf(tid)]
                  /\ currentTripId' = eff.id
                  /\ currentTrip' = tripWithId
                  /\ calendarItems' = eff.items
                  /\ calView' = [calView EXCEPT !.loading = eff.loading,
                                                !.error = eff.error]
                  /\ Pending(fetches (+) eff.runs, left, deletes)
                  /\ UNCHANGED << tripsView, detailView, form >>
          ELSE EnterCalendar(tid, tripWithId, calendarItems, StringOf(tid),
                             fetches, left, deletes)
       /\ lastOp' = "createOk"

CreateErrors ==
  { "Failed to create trip: No response from server",
    "Failed to create trip: status",
    "Failed to create trip: Failed to get trip ID from server" }

\* A faulty failure path without the finally block: isCreating stays true.
CreateFail_NoFinally(r, msg) ==
    /\ r \in DOMAIN creates
    /\ msg \in CreateErrors
    /\ creates' = creates (-) One(r)
    /\ form' = IF r.live THEN [form EXCEPT !.error = msg] ELSE form
    /\ lastOp' = "createFail"
    /\ UNCHANGED << ctx, route, tripsView, calView, detailView, fetches, deletes, server >>

\* The create request failed (no response, a non-2xx status, or a response
\* without trip_id): the catch and finally of handleContinue.
CreateFail(r, msg) ==
    /\ r \in DOMAIN creates
    /\ msg \in CreateErrors
    /\ creates' = creates (-) One(r)
    /\ form' = IF r.live THEN [form EXCEPT !.error = msg, !.isCreating = FALSE]
               ELSE form
    /\ lastOp' = "createFail"
    /\ UNCHANGED << ctx, route, tripsView, calView, detailView, fetches, deletes, server >>

\* BuildANewTrip handleBack: back to List View, from which the flow was opened.
HandleBackCreate ==
  /\ FormFree
  /\ EnterTrips(fetches, creates, deletes)
  /\ lastOp' = "handleBackCreate"
  /\ UNCHANGED << ctx, server >>

(* ----------------------- Calendar View: delete ------------------------ *)
\* handleDeleteTrip (the Delete Trip button, disabled while loading)
HandleDeleteTrip ==
  /\ route.view = "calendar"
  /\ ~calView.loading
  /\ ~calView.deleteDialogOpen
  /\ calView' = [calView EXCEPT !.deleteDialogOpen = TRUE]
  /\ lastOp' = "handleDeleteTrip"
  /\ UNCHANGED << ctx, route, tripsView, detailView, form, fetches, creates, deletes,
                  server >>

\* A faulty confirmDelete that the page offers without the dialog.
ConfirmDelete_NoDialog ==
  /\ route.view = "calendar"
  /\ ~calView.isDeleting
  /\ BagCardinality(deletes) < MaxInFlight
  /\ IF ~Truthy(currentTripId)
     THEN UNCHANGED << calView, deletes >>
     ELSE /\ calView' = [calView EXCEPT !.isDeleting = TRUE]
          /\ deletes' = deletes (+) One([url |-> StringOf(currentTripId), live |-> TRUE])
  /\ lastOp' = "confirmDelete"
  /\ UNCHANGED << ctx, route, tripsView, detailView, form, fetches, creates, server >>

\* confirmDelete up to its await (the dialog's Delete Trip button)
ConfirmDelete ==
  /\ route.view = "calendar"
  /\ calView.deleteDialogOpen
  /\ ~calView.isDeleting
  /\ BagCardinality(deletes) < MaxInFlight
  /\ IF ~Truthy(currentTripId)
     THEN UNCHANGED << calView, deletes >>
     ELSE /\ calView' = [calView EXCEPT !.isDeleting = TRUE]
          /\ deletes' = deletes (+) One([url |-> StringOf(currentTripId), live |-> TRUE])
  /\ lastOp' = "confirmDelete"
  /\ UNCHANGED << ctx, route, tripsView, detailView, form, fetches, creates, server >>

\* cancelDelete (the dialog's Cancel button, disabled while deleting)
CancelDelete ==
  /\ route.view = "calendar"
  /\ calView.deleteDialogOpen
  /\ ~calView.isDeleting
  /\ calView' = [calView EXCEPT !.deleteDialogOpen = FALSE]
  /\ lastOp' = "cancelDelete"
  /\ UNCHANGED << ctx, route, tripsView, detailView, form, fetches, creates, deletes,
                  server >>

\* The dialog's onOpenChange (Escape, a click outside): setDeleteDialogOpen(false)
DismissDialog ==
  /\ route.view = "calendar"
  /\ calView.deleteDialogOpen
  /\ calView' = [calView EXCEPT !.deleteDialogOpen = FALSE]
  /\ lastOp' = "dismissDialog"
  /\ UNCHANGED << ctx, route, tripsView, detailView, form, fetches, creates, deletes,
                  server >>

\* A faulty success path that calls clearTripData before it navigates.
DeleteOk_ClearsTripData(r) ==
  \E doc \in db :
    /\ r \in DOMAIN deletes
    /\ DocId(doc) = r.url
    /\ db' = db \ {doc}
    /\ IF route.view = "trips"
       THEN /\ Pending(fetches, creates, deletes (-) One(r))
            /\ UNCHANGED << route, tripsView, calView, detailView, form >>
       ELSE EnterTrips(fetches, creates, deletes (-) One(r))
    /\ lastOp' = "deleteOk"
    /\ currentTripId' = NullId
    /\ currentTrip' = NoTrip
    /\ calendarItems' = << >>
    /\ UNCHANGED created

\* api.deleteTrip resolved with success: navigate('/trips'). List View stays
\* mounted when it is the view shown already.
DeleteOk(r) ==
  \E doc \in db :
    /\ r \in DOMAIN deletes
    /\ DocId(doc) = r.url
    /\ db' = db \ {doc}
    /\ IF route.view = "trips"
       THEN /\ Pending(fetches, creates, deletes (-) One(r))
            /\ UNCHANGED << route, tripsView, calView, detailView, form >>
       ELSE EnterTrips(fetches, creates, deletes (-) One(r))
    /\ lastOp' = "deleteOk"
    /\ UNCHANGED << ctx, created >>

\* A faulty failure path without the finally block of confirmDelete.
DeleteFail_NoFinally(r) ==
    /\ r \in DOMAIN deletes
    /\ deletes' = deletes (-) One(r)
    /\ calView' = IF r.live
                  THEN [calView EXCEPT !.error = "Failed to delete trip"]
                  ELSE calView
    /\ lastOp' = "deleteFail"
    /\ UNCHANGED << ctx, route, tripsView, detailView, form, fetches, creates, server >>

\* api.deleteTrip threw, or answered without success.
DeleteFail(r) ==
    /\ r \in DOMAIN deletes
    /\ deletes' = deletes (-) One(r)
    /\ calView' = IF r.live
                  THEN [calView EXCEPT !.error = "Failed to delete trip",
                                       !.isDeleting = FALSE,
                                       !.deleteDialogOpen = FALSE]
                  ELSE calView
    /\ lastOp' = "deleteFail"
    /\ UNCHANGED << ctx, route, tripsView, detailView, form, fetches, creates, server >>

(* --------------------------- specifications -------------------------- *)
\* The handlers of List View, Calendar View and Item Detail View.
ViewActions ==
  \/ HealthOk
  \/ HealthFail
  \/ ListOk
  \/ ListFail
  \/ \E i \in 1..Len(TripsShown) : HandleTripClick(TripsShown[i])
  \/ HandleCreateNewTrip
  \/ GetTripOk
  \/ GetTripFail
  \/ GetCalOk
  \/ GetCalFail
  \/ HandleItemClick
  \/ HandleBackToTrips
  \/ ResetError
  \/ HandleBack

\* The delete dialog of Calendar View and the responses to deleteTrip.
DeleteActions ==
  \/ HandleDeleteTrip
  \/ ConfirmDelete
  \/ CancelDelete
  \/ DismissDialog
  \/ \E r \in DOMAIN deletes : DeleteOk(r)
  \/ \E r \in DOMAIN deletes : DeleteFail(r)

\* Submission of the Create Flow and its responses.
SubmitActions ==
  \/ HandleDestinationSelect
  \/ HandleContinue
  \/ \E r \in DOMAIN creates : \E tid \in TripIdForms : CreateOk(r, tid)
  \/ \E r \in DOMAIN creates : \E msg \in CreateErrors : CreateFail(r, msg)
  \/ HandleBackCreate

\* The optional fields and the date picker of the Create Flow.
FieldActions ==
  \/ HandleGuestSelect
  \/ HandleBudgetSelect
  \/ HandlePurposeSelect
  \/ OpenDatePicker
  \/ \E d \in Days : HandleDayClick(d)
  \/ ClearDateSelection
  \/ CloseDatePicker

\* The whole application, the user filling in no more than the destination
\* of a new trip.
Next == ViewActions \/ SubmitActions

Spec == Init /\ [][Next]_vars

\* The Create Flow with all its fields, opened from List View after the
\* trip t1 was viewed: the context still holds t1 and its items.
FormInit ==
  /\ db = InitialDb
  /\ created = 0
  /\ route = [view |-> "create", id |-> ""]
  /\ tripsView = TripsIdle
  /\ calView = CalIdle
  /\ detailView = DetailIdle
  /\ form = FormIdle
  /\ fetches = EmptyBag
  /\ creates = EmptyBag
  /\ deletes = EmptyBag
  /\ lastOp = "handleCreateNewTrip"
  /\ currentTripId = Str("t1")
  /\ currentTrip \in { d \in InitialDb : DocId(d) = "t1" }
  /\ calendarItems = CalendarOf("t1")

FormNext == SubmitActions \/ FieldActions

FormSpec == FormInit /\ [][FormNext]_vars

\* The views with the deletion of trips, no trip being created.
DeleteNext == ViewActions \/ DeleteActions

DeleteSpec == Init /\ [][DeleteNext]_vars

(* ------------------------- the detail lookup -------------------------- *)
\* Item Detail View activated at any URL of the session's history, on a
\* context that is empty or holds trip t1 with any collection the server
\* may have delivered for it: plain ids, wrapped ids, items without an id.
LookupItems ==
  { Item(Str("a1"), "t1"), Item(Oid("b1"), "t1"), Item(NullId, "t1") }

Collections ==
  UNION { [1..n -> LookupItems] : n \in 0..MaxItems }

\* The element ids a detail URL can carry; the last one is a missing id.
DetailPathIds == {"a1", "b1", "zz", ""}

\* A navigation to /trip-element-detail/:id while List View is shown.
OpenDetail(p) ==
  /\ route.view = "trips"
  /\ p \in DetailPathIds
  /\ EnterDetail(p, fetches, creates, deletes)
  /\ lastOp' = "openDetail"
  /\ UNCHANGED << ctx, server >>

LookupInit ==
  /\ db = InitialDb
  /\ created = 0
  /\ route = [view |-> "trips", id |-> ""]
  /\ tripsView = TripsMounted
  /\ calView = CalIdle
  /\ detailView = DetailIdle
  /\ form = FormIdle
  /\ fetches = EmptyBag
  /\ creates = EmptyBag
  /\ deletes = EmptyBag
  /\ lastOp = "openTrips"
  /\ \/ /\ currentTripId = NullId
        /\ currentTrip = NoTrip
        /\ calendarItems = << >>
     \/ /\ currentTripId = Str("t1")
        /\ currentTrip \in { d \in InitialDb : DocId(d) = "t1" }
        /\ calendarItems \in Collections

LookupNext ==
  \/ \E p \in DetailPathIds : OpenDetail(p)
  \/ HandleBack
  \/ HandleBackToTrips

LookupSpec == LookupInit /\ [][LookupNext]_vars

(* ---------------------- the calendar activation ----------------------- *)
\* Calendar View activated at any calendar URL of the session's history, on
\* a context that is empty, holds the id of t1 alone, or holds t1 whole.
HistoryPathIds == PathIds \cup {"t2"}

\* A navigation to /trip-draft-calendar/:tripId while List View is shown:
\* useParams delivers the path id and the effect runs fetchData.
OpenCalendar(p) ==
  /\ route.view = "trips"
  /\ p \in HistoryPathIds
  /\ BagCardinality(fetches) < MaxInFlight
  /\ EnterCalendar(currentTripId, currentTrip, calendarItems, p,
                   fetches, creates, deletes)
  /\ lastOp' = "openCalendar"
  /\ UNCHANGED server

ActivationInit ==
  /\ db = InitialDb
  /\ created = 0
  /\ route = [view |-> "trips", id |-> ""]
  /\ tripsView = TripsMounted
  /\ calView = CalIdle
  /\ detailView = DetailIdle
  /\ form = FormIdle
  /\ fetches = EmptyBag
  /\ creates = EmptyBag
  /\ deletes = EmptyBag
  /\ lastOp = "openTrips"
  /\ \/ /\ currentTripId = NullId
        /\ currentTrip = NoTrip
        /\ calendarItems = << >>
     \/ /\ currentTripId = Str("t1")
        /\ currentTrip = NoTrip
        /\ calendarItems = << >>
     \/ /\ currentTripId = Str("t1")
        /\ currentTrip \in { d \in InitialDb : DocId(d) = "t1" }
        /\ calendarItems = CalendarOf("t1")

\* The responses to the requests of fetchData.
FetchResponses ==
  \/ GetTripOk
  \/ GetTripFail
  \/ GetCalOk
  \/ GetCalFail

ActivationNext ==
  \/ \E p \in HistoryPathIds : OpenCalendar(p)
  \/ FetchResponses
  \/ ResetError
  \/ HandleBackToTrips

ActivationSpec == ActivationInit /\ [][ActivationNext]_vars

\* Every request that is in flight is answered at some time; the user is
\* under no obligation to act.
ActivationLive == ActivationSpec /\ WF_vars(FetchResponses)

\* The fetchData runs of the mounted Calendar View that await a response.
LiveRuns == { r \in DOMAIN fetches : r.live }

(* ------------------------------ properties ---------------------------- *)
\* The id a Calendar View mounted now settles on, as fetchData decides it.
CalendarTarget == FetchPlan(currentTripId, currentTrip, route.id).tripId

\* C1: whatever the interleaving of responses, stale ones of unmounted
\* Calendar Views included, a Calendar View that has finished loading shows
\* only items whose owning-trip id is the active trip id.
C1_ShownItemsBelongToActiveTrip ==
  \A i \in 1..Len(ItemsShown) : ItemsShown[i].trip_id = currentTripId.val

\* C2: every step that changes the active trip id (a selection in List View,
\* a successful submission of the Create Flow) leaves the calendar item
\* collection empty.
C2_TripChangeClearsItems ==
  [][currentTripId' # currentTripId => calendarItems' = << >>]_vars

\* C3: selecting any trip shown in List View sets the active trip id to the
\* plain string of the trip's id, the trip record to the selected trip and
\* the item collection to empty, and shows Calendar View for that id,
\* whatever the context held before.
C3_SelectionSetsContext ==
  [][\A i \in 1..Len(TripsShown) :
       HandleTripClick(TripsShown[i]) =>
         /\ currentTripId' = Str(TripsShown[i]._id.val)
         /\ currentTrip' = TripsShown[i]
         /\ calendarItems' = << >>
         /\ route' = [view |-> "calendar", id |-> TripsShown[i]._id.val]]_vars

\* A selection of the trip with the wrapped id t2, made while the context
\* held t1 and its items and a request of t1's Calendar View is still open.
C3_Witness ==
  /\ lastOp = "handleTripClick"
  /\ currentTripId = Str("t2")
  /\ currentTrip._id = Oid("t2")
  /\ calendarItems = << >>
  /\ \E r \in DOMAIN fetches : ~r.live /\ r.tripId = Str("t1")

\* C4: the item Item Detail View resolves is owned by the active trip.
C4_DetailItemBelongsToActiveTrip ==
  (route.view = "detail" /\ detailView.item # NoItem)
    => detailView.item.trip_id = currentTripId.val

\* C5: in start mode a click on day d sets the start date to d; the end date
\* becomes d + 7 when an end date e exists and d > e, and is unchanged
\* otherwise.
C5_StartClick ==
  [][\A d \in Days :
       (form.showCalendar = "start" /\ HandleDayClick(d)) =>
         /\ form'.startDate = d
         /\ form'.endDate = IF form.endDate # NoDate /\ d > form.endDate
                            THEN d + 7 ELSE form.endDate]_vars

\* A start date picked after the end date: the end date sits a week later.
C5_Witness ==
  /\ lastOp = "handleDayClick(start)"
  /\ form.showCalendar = "end"
  /\ form.startDate # NoDate
  /\ form.endDate = form.startDate + 7

\* C6: in end mode a click on a day before the start date changes neither
\* date nor the mode; any other click sets the end date and closes the
\* picker.
C6_EndClick ==
  [][\A d \in Days :
       (form.showCalendar = "end" /\ HandleDayClick(d)) =>
         IF form.startDate # NoDate /\ d < form.startDate
         THEN /\ form'.startDate = form.startDate
              /\ form'.endDate = form.endDate
              /\ form'.showCalendar = "end"
         ELSE /\ form'.startDate = form.startDate
              /\ form'.endDate = d
              /\ form'.showCalendar = Null]_vars

\* An end-mode click that was ignored: the picker is still in end mode.
C6_Witness ==
  /\ lastOp = "handleDayClick(end)"
  /\ form.showCalendar = "end"
  /\ form.startDate > 0

\* C7: whenever the form holds both dates, the start date is not after the
\* end date.
C7_StartNotAfterEnd ==
  (form.startDate # NoDate /\ form.endDate # NoDate)
    => form.startDate <= form.endDate

\* The form holds a range chosen through the picker, the end date picked
\* last.
C7_Witness ==
  /\ route.view = "create"
  /\ form.showCalendar = Null
  /\ form.startDate # NoDate
  /\ form.endDate # NoDate
  /\ form.startDate < form.endDate
  /\ lastOp = "handleDayClick(end)"

\* C8: a submission without a destination sets the error message, sends no
\* request, leaves isCreating false, and changes neither the context nor the
\* view shown, whatever the other fields hold.
C8_NoDestinationNoRequest ==
  [][(HandleContinue /\ form.selectedDestination = Null) =>
       /\ form'.error = "Please select a destination first"
       /\ creates' = creates
       /\ ~form'.isCreating
       /\ ctx' = ctx
       /\ route' = route
       /\ db' = db]_vars

\* A rejected submission of a form whose other fields are filled in.
C8_Witness ==
  /\ lastOp = "handleContinue"
  /\ form.selectedDestination = Null
  /\ form.error = "Please select a destination first"
  /\ form.startDate # NoDate
  /\ form.selectedGuests # 0
  /\ form.selectedBudget # NoBudget
  /\ creates = EmptyBag

\* C9: when the create request succeeds, the active trip id is the id the
\* server returned, the trip record is the submitted fields plus that id,
\* and both are in place in the step that shows Calendar View for that id.
C9_CreateSuccessSetsContext ==
  [][\A r \in DOMAIN creates : \A tid \in TripIdForms :
       CreateOk(r, tid) =>
         /\ currentTripId' = tid
         /\ DOMAIN currentTrip' = DOMAIN r.tripData \cup {"_id"}
         /\ currentTrip'._id = tid
         /\ \A k \in DOMAIN r.tripData : currentTrip'[k] = r.tripData[k]
         /\ route'.view = "calendar"
         /\ CalendarTarget' = tid]_vars

\* A created trip with chosen guests and dates shown in Calendar View.
C9_Witness ==
  /\ lastOp = "createOk"
  /\ route.view = "calendar"
  /\ currentTripId = Str("n1")
  /\ currentTrip._id = Str("n1")
  /\ currentTrip.numberOfGuests = 2
  /\ currentTrip.startDate = InstantOf(0)
  /\ currentTrip.destination = "Paris"

\* C10: when the create request fails (no response, a non-2xx status, a
\* response without trip id), a mounted form gets the error message and
\* isCreating false, the view shown stays, and neither the submission nor
\* the failure writes to the context.
C10_CreateFailureLeavesContext ==
  [][/\ HandleContinue => (ctx' = ctx /\ route' = route)
     /\ \A r \in DOMAIN creates : \A msg \in CreateErrors :
          CreateFail(r, msg) =>
            /\ ctx' = ctx
            /\ route' = route
            /\ r.live => (form'.error = msg /\ ~form'.isCreating)]_vars

\* A failed submission shown in the form while the context holds t1.
C10_Witness ==
  /\ lastOp = "createFail"
  /\ route.view = "create"
  /\ form.error \in CreateErrors
  /\ ~form.isCreating
  /\ currentTripId = Str("t1")
  /\ calendarItems = CalendarOf("t1")

\* The runs a step starts or moves on to their next request: they belong to
\* the mounted view, and an unmount only turns live runs into stale ones.
Issued(before, after) ==
  { r \in DOMAIN after : r.live /\ CountOf(after, r) > CountOf(before, r) }

\* The runs of a kind in flight, of mounted and unmounted views together.
Total(b, r) ==
  CountOf(b, [r EXCEPT !.live = TRUE]) + CountOf(b, [r EXCEPT !.live = FALSE])

\* C11: a submission with a destination and nothing else chosen sends the
\* day of the submission as start date, an end date seven days after the
\* start date, one guest, budget "$" and purpose "Leisure"; a submission
\* with only a start date chosen sends that start date plus seven days as
\* end date.
C11_SubmissionDefaults ==
  [][(HandleContinue /\ form.selectedDestination # Null) =>
       \A r \in Issued(creates, creates') :
         /\ (/\ form.startDate = NoDate
             /\ form.endDate = NoDate
             /\ form.selectedGuests = 0
             /\ form.selectedBudget = NoBudget
             /\ form.selectedPurpose = Null)
              => /\ r.tripData.startDate \div TicksPerDay = Today
                 /\ r.tripData.endDate = r.tripData.startDate + 7 * TicksPerDay
                 /\ r.tripData.numberOfGuests = 1
                 /\ r.tripData.totalBudget = "$"
                 /\ r.tripData.purpose = "Leisure"
         /\ (form.startDate # NoDate /\ form.endDate = NoDate)
              => /\ r.tripData.startDate = form.startDate * TicksPerDay
                 /\ r.tripData.endDate = (form.startDate + 7) * TicksPerDay]_vars

\* A form with only a destination and a start date other than today was
\* submitted: the request carries that start date and the defaults.
C11_Witness ==
  /\ lastOp = "handleContinue"
  /\ form.isCreating
  /\ form.startDate # NoDate
  /\ form.startDate # Today
  /\ form.endDate = NoDate
  /\ form.selectedGuests = 0
  /\ \E r \in DOMAIN creates :
       /\ r.tripData.endDate = (form.startDate + 7) * TicksPerDay
       /\ r.tripData.numberOfGuests = 1
       /\ r.tripData.totalBudget = "$"
       /\ r.tripData.purpose = "Leisure"

\* C12: an activation of Calendar View with a known trip id issues getTrip
\* only when the context holds no trip record, uses the cached record only
\* when it is the record of the trip being loaded, and always issues
\* getCalendar for that trip id, whatever the outcome of the trip fetch.
C12_TripCachedCalendarAlwaysFetched ==
  [][/\ \A r \in Issued(fetches, fetches') :
          /\ r.stage = "trip" => currentTrip' = NoTrip
          /\ r.stage = "cal" => currentTrip'._id.val = r.tripId.val
     /\ \A r \in DOMAIN fetches :
          (r.stage = "trip" /\ Total(fetches', r) < Total(fetches, r))
            => \E q \in DOMAIN fetches' :
                 /\ q.stage = "cal"
                 /\ q.tripId = r.tripId
                 /\ Total(fetches', q) > Total(fetches, q)]_vars

\* C13: a deleteTrip request is issued only from a state whose confirmation
\* dialog is open; the dialog opens only by the Delete Trip action; that
\* action issues no request, and Cancel closes the dialog without one.
C13_DeleteNeedsConfirmation ==
  [][/\ Issued(deletes, deletes') # {}
          => (route.view = "calendar" /\ calView.deleteDialogOpen)
     /\ (~calView.deleteDialogOpen /\ calView'.deleteDialogOpen) => HandleDeleteTrip
     /\ HandleDeleteTrip => deletes' = deletes
     /\ CancelDelete => (~calView'.deleteDialogOpen /\ deletes' = deletes)]_vars

\* The dialog's Delete Trip button was pressed: a request is in flight.
C13_Witness ==
  /\ lastOp = "confirmDelete"
  /\ calView.deleteDialogOpen
  /\ calView.isDeleting
  /\ \E r \in DOMAIN deletes : r.live /\ r.url = "t1"

\* C14: a confirmed deleteTrip that succeeds navigates to List View; one
\* that fails shows the error, does not navigate and leaves the trip of the
\* context (and of the server) as it was; after either outcome the
\* confirmation dialog is closed and isDeleting is false.
C14_DeleteOutcome ==
  [][\A r \in DOMAIN deletes :
       /\ DeleteOk(r) =>
            /\ route'.view = "trips"
            /\ ~calView'.deleteDialogOpen
            /\ ~calView'.isDeleting
       /\ (DeleteFail(r) /\ r.live) =>
            /\ calView'.error # Null
            /\ route' = route
            /\ currentTripId' = currentTripId
            /\ currentTrip' = currentTrip
            /\ db' = db
            /\ ~calView'.deleteDialogOpen
            /\ ~calView'.isDeleting]_vars

\* The delete of t1 failed: Calendar View of t1 stays, with the error.
C14_Witness ==
  /\ lastOp = "deleteFail"
  /\ route = [view |-> "calendar", id |-> "t1"]
  /\ calView.error = "Failed to delete trip"
  /\ ~calView.deleteDialogOpen
  /\ ~calView.isDeleting
  /\ currentTrip._id = Str("t1")

\* C15: in an activation of List View getTrips is issued only by the step
\* in which the health check of that activation succeeded; a failed health
\* check shows an error, ends loading, leaves the trip list empty and ends
\* fetchTrips, so that no getTrips follows in that activation.
C15_ListOnlyAfterHealth ==
  [][/\ (tripsView.pc # "list" /\ tripsView'.pc = "list")
          => (HealthOk /\ tripsView.pc = "health")
     /\ HealthFail
          => /\ tripsView'.pc = "done"
             /\ tripsView'.error # Null
             /\ ~tripsView'.loading
             /\ tripsView'.trips = << >>
             /\ TripsShown' = << >>]_vars

\* The health check of a List View failed.
C15_Witness ==
  /\ lastOp = "healthFail"
  /\ route.view = "trips"
  /\ tripsView.pc = "done"
  /\ tripsView.error = "Cannot connect to the API server"
  /\ ~tripsView.loading
  /\ tripsView.trips = << >>

\* C16: when the health check succeeded and getTrips returns no trip, List
\* View ends in its empty state and not in its error state: error is null
\* and the empty-state message is what is shown.
C16_EmptyListIsNotAnError ==
  [][(ListOk /\ ListTrips(db) = << >>)
       => /\ tripsView'.error = Null
          /\ ~tripsView'.loading
          /\ tripsView'.trips = << >>]_vars

\* What Item Detail View renders.
DetailShown ==
  IF route.view # "detail" THEN "none"
  ELSE IF detailView.loading THEN "loading"
  ELSE IF detailView.error # Null \/ detailView.item = NoItem THEN "error"
  ELSE "item"

\* C17: Item Detail View activated while the context holds no active trip
\* id redirects to List View and displays no item, whatever id is asked for.
C17_DetailWithoutTripRedirects ==
  [][/\ \A p \in DetailPathIds :
          (OpenDetail(p) /\ ~Truthy(currentTripId))
            => (route'.view = "trips" /\ detailView'.item = NoItem)
     /\ route'.view = "detail" => Truthy(currentTripId')]_vars

\* A detail URL was opened on an empty context and List View is shown.
C17_Witness ==
  /\ lastOp = "openDetail"
  /\ ~Truthy(currentTripId)
  /\ route.view = "trips"
  /\ DetailShown = "none"

\* An id is present in a collection when some item carries it, plain or
\* wrapped.
Present(items, id) ==
  \E i \in 1..Len(items) : items[i]._id.kind # "null" /\ items[i]._id.val = id

\* C18: whatever the requested id and the content of the collection (plain
\* ids, wrapped ids, items without an id), the lookup of an id that is not
\* present ends with loading false in the not-found or error display.
C18_AbsentItemIsNotFound ==
  [][\A p \in DetailPathIds :
       (OpenDetail(p) /\ Truthy(currentTripId) /\ ~Present(calendarItems, p))
         => /\ route'.view = "detail"
            /\ ~detailView'.loading
            /\ detailView'.error # Null
            /\ detailView'.item = NoItem
            /\ DetailShown' = "error"]_vars

\* The lookup met an item without an id before finding the id asked for.
C18_Witness ==
  /\ lastOp = "openDetail"
  /\ route = [view |-> "detail", id |-> "zz"]
  /\ ~Present(calendarItems, "zz")
  /\ \E i \in 1..Len(calendarItems) : calendarItems[i]._id = NullId
  /\ detailView.error = "Error loading element details"
  /\ DetailShown = "error"

\* The steps in which a response arrives; every other step is a user action.
ResponseOps ==
  { "healthOk", "healthFail", "listOk", "listFail", "getTripOk", "getTripFail",
    "getCalOk", "getCalFail", "createOk", "createFail", "deleteOk", "deleteFail" }

\* The operations to which a step issues a request.
IssuedOps ==
  { "getTrip" : r \in { q \in Issued(fetches, fetches') : q.stage = "trip" } }
  \cup { "getCalendar" : r \in { q \in Issued(fetches, fetches') : q.stage = "cal" } }
  \cup { "create" : r \in Issued(creates, creates') }
  \cup { "delete" : r \in Issued(deletes, deletes') }
  \cup (IF tripsView'.pc = "health" /\ tripsView.pc # "health" THEN {"health"} ELSE {})
  \cup (IF tripsView'.pc = "list" /\ tripsView.pc # "list" THEN {"listTrips"} ELSE {})

\* The operation whose request failed in the step that led to this state.
FailedOp ==
  IF lastOp = "healthFail" THEN {"health"}
  ELSE IF lastOp = "listFail" THEN {"listTrips"}
  ELSE IF lastOp = "getTripFail" THEN {"getTrip"}
  ELSE IF lastOp = "getCalFail" THEN {"getCalendar"}
  ELSE IF lastOp = "createFail" THEN {"create"}
  ELSE IF lastOp = "deleteFail" THEN {"delete"}
  ELSE {}

\* C19: no request is re-issued automatically: once a request has failed, a
\* step that is neither a user action nor a navigation issues no request to
\* the same operation.
C19_NoAutomaticReissue ==
  [][(lastOp' \in ResponseOps /\ route' = route)
       => FailedOp \cap IssuedOps = {}]_vars

\* C20: whether the server delivers trip ids plain or wrapped, every trip id
\* written to the context and every trip id placed in the URL of a getTrip,
\* getCalendar or deleteTrip request is the plain underlying string.
C20_TripIdsArePlainStrings ==
  /\ currentTripId.kind # "oid"
  /\ \A r \in DOMAIN fetches : r.tripId.kind = "str"
  /\ \A r \in DOMAIN deletes : r.url # "[object Object]"

\* C21: after a deleteTrip has succeeded the view is List View, and the
\* list it shows comes from a getTrips answered after the delete: no trip
\* that the server has removed is among the trips shown.
C21_ListAfterDeleteIsFresh ==
  [][/\ \A r \in DOMAIN deletes : DeleteOk(r) => route'.view = "trips"
     /\ \A i \in 1..Len(TripsShown') :
          \E doc \in db' : DocId(doc) = DocId(TripsShown'[i])]_vars

\* C22: a click on a calendar item leaves the context (trip id, trip
\* record, calendar items) unchanged, and Item Detail View, mounting and
\* looking the item up, writes nothing to the context and issues no request.
C22_ItemClickLeavesContext ==
  [][HandleItemClick
       => /\ ctx' = ctx
          /\ IssuedOps = {}
          /\ db' = db
          /\ route'.view = "detail"]_vars

\* The second item of t2 was clicked and is shown; the collection is whole.
C22_Witness ==
  /\ lastOp = "handleItemClick"
  /\ route = [view |-> "detail", id |-> "b2"]
  /\ DetailShown = "item"
  /\ currentTripId = Str("t2")
  /\ calendarItems = CalendarOf("t2")

\* C23: when the getTripCalendar request of the mounted Calendar View fails,
\* the collection becomes empty and the error is displayed with its Retry
\* control while the trip id and the trip record stay as they were; Retry
\* then clears the error and issues the fetch again. (A request was sent, so
\* the trip id is one that api.getTripCalendar accepts.)
C23_CalendarFailureAndRetry ==
  [][/\ (GetCalFail /\ \E r \in DOMAIN fetches :
                         r.live /\ r.stage = "cal" /\ fetches' = fetches (-) One(r))
          => /\ calendarItems' = << >>
             /\ ~calView'.loading
             /\ calView'.error = "Could not load calendar items"
             /\ currentTripId' = currentTripId
             /\ currentTrip' = currentTrip
     /\ (ResetError /\ calView.error = "Could not load calendar items"
                    /\ ApiIdValid(currentTripId))
          => /\ calView'.error = Null
             /\ calView'.loading
             /\ \E r \in Issued(fetches, fetches') :
                  r.tripId = currentTripId /\ r.stage = "cal"
             /\ currentTripId' = currentTripId
             /\ currentTrip' = currentTrip]_vars

\* The calendar request of the mounted view has failed: the error that only
\* that failure sets under a valid trip id is displayed over a known trip.
C23_Witness ==
  /\ lastOp = "getCalFail"
  /\ route.view = "calendar"
  /\ ~calView.loading
  /\ calView.error = "Could not load calendar items"
  /\ ApiIdValid(currentTripId)
  /\ currentTrip # NoTrip
  /\ calendarItems = << >>

\* C24: whenever the context holds both an active trip id and a trip record,
\* the record is the one of that trip: its id, taken as a plain string, is
\* the active trip id, also when a getTrip of an unmounted Calendar View
\* answers late.
C24_RecordMatchesActiveId ==
  (Truthy(currentTripId) /\ currentTrip # NoTrip)
    => currentTrip._id.val = currentTripId.val

\* C25: whatever picker operations came before the submission (a Clear of
\* the start date while an end date remains among them), the payload of a
\* create request has a start date that is not after its end date.
C25_PayloadStartNotAfterEnd ==
  \A r \in DOMAIN creates : r.tripData.startDate <= r.tripData.endDate

\* C26: Calendar View takes the trip id from the context whenever the
\* context holds one, whatever the URL says; only when the context holds
\* none does it adopt the id of the URL path and write it to the context;
\* with neither it shows an error and issues no request.
C26_ContextIdBeforePathId ==
  [][/\ \A p \in HistoryPathIds :
          OpenCalendar(p) =>
            /\ Truthy(currentTripId) =>
                 /\ currentTripId' = currentTripId
                 /\ Issued(fetches, fetches') # {}
                 /\ \A r \in Issued(fetches, fetches') : r.tripId = currentTripId
            /\ (~Truthy(currentTripId) /\ p # "") =>
                 /\ currentTripId' = Str(p)
                 /\ Issued(fetches, fetches') # {}
                 /\ \A r \in Issued(fetches, fetches') : r.tripId = Str(p)
            /\ (~Truthy(currentTripId) /\ p = "") =>
                 /\ currentTripId' = currentTripId
                 /\ Issued(fetches, fetches') = {}
                 /\ ~calView'.loading
                 /\ calView'.error = "No trip ID provided"
     /\ currentTripId' # currentTripId =>
          (~Truthy(currentTripId) /\ currentTripId' = Str(route'.id))
     /\ \A r \in Issued(fetches, fetches') : r.tripId = currentTripId']_vars

\* Calendar View was activated at the URL of t2 while the context held t1:
\* the run in flight is for t1.
C26_Witness ==
  /\ lastOp = "openCalendar"
  /\ route = [view |-> "calendar", id |-> "t2"]
  /\ currentTripId = Str("t1")
  /\ \E r \in DOMAIN fetches : r.live /\ r.tripId = Str("t1")

\* C27: at any time at most one create request is in flight and at most
\* one deleteTrip request is in flight, also after the delete dialog was
\* dismissed and opened again.
C27_OneRequestInFlight ==
  /\ BagCardinality(creates) <= 1
  /\ BagCardinality(deletes) <= 1

\* C28: the delete flow never modifies the context: no step of it, from the
\* Delete Trip button to the response, changes the trip id, the trip record
\* or the calendar items, so that after a successful deletion List View is
\* shown over a context that still holds the deleted trip.
C28_DeleteLeavesContext ==
  [][/\ (\/ HandleDeleteTrip
         \/ ConfirmDelete
         \/ CancelDelete
         \/ DismissDialog
         \/ \E r \in DOMAIN deletes : DeleteOk(r)
         \/ \E r \in DOMAIN deletes : DeleteFail(r)) => ctx' = ctx
     /\ \A r \in DOMAIN deletes :
          (DeleteOk(r) /\ r.live)
            => /\ route'.view = "trips"
               /\ StringOf(currentTripId') = r.url
               /\ \A doc \in db' : DocId(doc) # StringOf(currentTripId')]_vars

\* t1 was deleted and List View is shown; the context still holds the id,
\* the record and the items of t1.
C28_Witness ==
  /\ lastOp = "deleteOk"
  /\ route.view = "trips"
  /\ currentTripId = Str("t1")
  /\ currentTrip # NoTrip
  /\ DocId(currentTrip) = "t1"
  /\ calendarItems = CalendarOf("t1")
  /\ \A doc \in db : DocId(doc) # "t1"

\* C29: whenever Item Detail View is mounted with an active trip id and the
\* collection holds an item with the id asked for, the view displays that
\* item and not an error, also after the collection changed while the view
\* was mounted (emptied by a failed refetch, then filled again).
C29_PresentItemIsDisplayed ==
  (route.view = "detail" /\ Truthy(currentTripId)
     /\ Present(calendarItems, route.id))
    => /\ DetailShown = "item"
       /\ detailView.item._id.val = route.id

\* C30: an activation of Calendar View starts only finitely many fetchData
\* runs: when every request is answered, the mounted view comes to a state
\* in which none of its runs is in flight, unless the user leaves the view
\* or starts a further run with Retry; and a view that shows the loading
\* state comes to show loading false, after a success or after a failure.
C30_ActivationTerminates ==
  /\ (route.view = "calendar" /\ LiveRuns # {})
       ~> (route.view # "calendar" \/ LiveRuns = {} \/ lastOp = "resetError")
  /\ (route.view = "calendar" /\ calView.loading)
       ~> (route.view # "calendar" \/ ~calView.loading)

\* The activation at the URL of t1 on an empty context, which runs fetchData
\* twice and once more after each getTrip, has come to rest with the trip
\* and its items loaded.
C30_Witness ==
  /\ lastOp = "getCalOk"
  /\ route = [view |-> "calendar", id |-> "t1"]
  /\ LiveRuns = {}
  /\ fetches = EmptyBag
  /\ ~calView.loading
  /\ calView.error = Null
  /\ currentTrip # NoTrip
  /\ calendarItems = CalendarOf("t1")

====
